---- MODULE Spec2Model ----
(***************************************************************************)
(* Model of migration_checker.py: a command-line tool that gathers the     *)
(* migration files changed since a git commit, renders each one to SQL     *)
(* with "manage.py sqlmigrate" and tests every rendered statement against  *)
(* three regular expressions.                                              *)
(*                                                                         *)
(* Text is modelled at character level: a Python str is a sequence of      *)
(* one-character strings, so that substring tests, strip(), readlines(),   *)
(* os.path.split and os.path.splitext are computed as the library          *)
(* computes them.  The code is Python 2 (it imports print_function, and    *)
(* it mixes pipe output with str literals), so pipe output is str.         *)
(***************************************************************************)
EXTENDS Integers, Sequences, FiniteSets, TLC

VARIABLES
    pc,                      \* position of the single thread of the script
    folder,                  \* what the file system holds at DJANGO_FOLDER
    args_commit_id,          \* args.commit_id (None == <<>>)
    commit_id,               \* self.commit_id
    constructed,             \* a MigrationChecker object exists
    changed_migration_files, \* self.changed_migration_files
    procs,                   \* every Popen so far, in start order, with the child's state
    diff_lines,              \* diff_process.stdout.readlines() of _gather_migrations
    sql_lines,               \* diff_process.stdout.readlines() of django_sqlmigrate,
                             \* kept with sql_statements to the end of the iteration
    sql_statements,          \* the list django_sqlmigrate returned
    idx,                     \* position of the for loop of check_migrations (1-based)
    nb_valid,
    nb_erroneous,
    printed,                 \* what was written to standard output, in order
    returncode,              \* returncode of the live Popen object, -1 for None
    exc,                     \* the exception that ended the run, "" if none
    arg,                     \* argument of the function under test (function specifications)
    ret                      \* <<>> before the call, <<result>> after it

vars == <<pc, folder, args_commit_id, commit_id, constructed, changed_migration_files, procs,
          diff_lines, sql_lines, sql_statements, idx, nb_valid, nb_erroneous,
          printed, returncode, exc, arg, ret>>

pipeVars == <<pc, folder, args_commit_id, commit_id, constructed, changed_migration_files, procs,
              diff_lines, sql_lines, sql_statements, idx, nb_valid, nb_erroneous,
              printed, returncode, exc>>

-----------------------------------------------------------------------------
(* Bounds of the model *)

\* fragments concatenated into one SQL statement of the rule-check specification
MaxFrags == 3
\* lines one "git diff --name-only" writes
MaxDiffLines == 2
\* lines one "manage.py sqlmigrate" writes
MaxSqlLines == 2
\* chunks the operating system buffers in a pipe nobody reads
PipeCap == 1
\* chunks a child writes to its standard error
MaxStderr == 2

-----------------------------------------------------------------------------
(* Python str operations *)

NL == "\n"

\* str.strip() removes these from both ends (the ASCII whitespace the inputs use)
WHITESPACE == {" ", "\t", "\n", "\r"}

\* sub occurs in s starting at (1-based) position i
OccursAt(sub, s, i) ==
    /\ i >= 1
    /\ i + Len(sub) - 1 <= Len(s)
    /\ SubSeq(s, i, i + Len(sub) - 1) = sub

\* `sub in s`, and re.search of a pattern without metacharacters
Contains(sub, s) == \E i \in 1..(Len(s) + 1) : OccursAt(sub, s, i)

\* s.startswith(prefix)
StartsWith(s, prefix) == OccursAt(prefix, s, 1)

RECURSIVE LStrip(_)
LStrip(s) ==
    IF s # <<>> /\ Head(s) \in WHITESPACE THEN LStrip(Tail(s)) ELSE s

RECURSIVE RStrip(_)
RStrip(s) ==
    IF s # <<>> /\ s[Len(s)] \in WHITESPACE
    THEN RStrip(SubSeq(s, 1, Len(s) - 1))
    ELSE s

\* s.strip()
Strip(s) == RStrip(LStrip(s))

\* s.rfind(c) + 1: the last position of character c, 0 when absent
RFind(s, c) ==
    LET hits == {i \in 1..Len(s) : s[i] = c}
    IN  IF hits = {} THEN 0 ELSE CHOOSE i \in hits : \A j \in hits : j <= i

\* file.readlines(): the data cut after every newline
RECURSIVE ReadLines(_)
ReadLines(data) ==
    IF data = <<>> THEN <<>>
    ELSE LET nls == {i \in 1..Len(data) : data[i] = NL}
             n   == IF nls = {} THEN Len(data)
                    ELSE CHOOSE i \in nls : \A j \in nls : i <= j
         IN  <<SubSeq(data, 1, n)>> \o ReadLines(SubSeq(data, n + 1, Len(data)))

\* the concatenation of a sequence of strings
RECURSIVE Concat(_)
Concat(ss) == IF ss = <<>> THEN <<>> ELSE Head(ss) \o Concat(Tail(ss))

\* seq[k] with Python's 0-based index k, negative k counting from the end;
\* <<>> stands for IndexError
PyIndex(seq, k) ==
    LET n == Len(seq)
        j == IF k < 0 THEN n + k + 1 ELSE k + 1
    IN  IF j >= 1 /\ j <= n THEN <<seq[j]>> ELSE <<>>

-----------------------------------------------------------------------------
(* The rule table and the rule check *)

MIGRATION_FOLDER_NAME == <<"m","i","g","r","a","t","i","o","n","s">>

S_NOT_NULL      == <<"N","O","T"," ","N","U","L","L">>
S_DROP_COLUMN   == <<"D","R","O","P"," ","C","O","L","U","M","N">>
S_ADD_COLUMN    == <<"A","D","D"," ","C","O","L","U","M","N">>
S_DEFAULT       == <<"D","E","F","A","U","L","T">>
S_ADD_COLUMN_SP == S_ADD_COLUMN \o <<" ">>
S_SP_DEFAULT    == <<" ">> \o S_DEFAULT

\* variant of ReAddColumnDefault: the pattern without its two spaces,
\* 'ADD COLUMN.*DEFAULT'
MutReAddColumnDefault(sql) ==
    \E i \in 1..Len(sql), j \in 1..Len(sql) :
        /\ OccursAt(S_ADD_COLUMN, sql, i)
        /\ j >= i + Len(S_ADD_COLUMN)
        /\ OccursAt(S_DEFAULT, sql, j)
        /\ \A k \in (i + Len(S_ADD_COLUMN))..(j - 1) : sql[k] # NL

\* re.search('ADD COLUMN .* DEFAULT', sql): '.' matches any character but a newline
ReAddColumnDefault(sql) ==
    \E i \in 1..Len(sql), j \in 1..Len(sql) :
        /\ OccursAt(S_ADD_COLUMN_SP, sql, i)
        /\ j >= i + Len(S_ADD_COLUMN_SP)
        /\ OccursAt(S_SP_DEFAULT, sql, j)
        /\ \A k \in (i + Len(S_ADD_COLUMN_SP))..(j - 1) : sql[k] # NL

\* migration_tests: 'fn' of entry k applied to sql
TestFn(k, sql) ==
    CASE k = 1 -> Contains(S_NOT_NULL, sql)
      [] k = 2 -> Contains(S_DROP_COLUMN, sql)
      [] k = 3 -> ReAddColumnDefault(sql)

\* migration_tests: 'err_msg' of entry k
ErrMsg(k) ==
    CASE k = 1 -> "NOT NULL constraint on columns"
      [] k = 2 -> "DROPPING columns"
      [] k = 3 -> "ADD columns with default"

NbTests == 3

\* _test_sql_statement_for_backward_incompatibility: the first matching entry decides
TestSqlStatement(sql_statement) ==
    LET hits == {k \in 1..NbTests : TestFn(k, sql_statement)}
    IN  IF hits # {}
        THEN [is_valid |-> FALSE,
              err_msg  |-> ErrMsg(CHOOSE k \in hits : \A j \in hits : k <= j)]
        ELSE [is_valid |-> TRUE, err_msg |-> "None"]

-----------------------------------------------------------------------------
(* Paths *)

\* posixpath.split(p)
OsPathSplit(p) ==
    LET i    == RFind(p, "/")
        head == SubSeq(p, 1, i)
        tail == SubSeq(p, i + 1, Len(p))
        RECURSIVE RStripSlash(_)
        RStripSlash(h) ==
            IF h # <<>> /\ h[Len(h)] = "/"
            THEN RStripSlash(SubSeq(h, 1, Len(h) - 1))
            ELSE h
    IN  <<IF head # <<>> /\ (\E k \in 1..Len(head) : head[k] # "/")
          THEN RStripSlash(head)
          ELSE head,
          tail>>

\* split_path(path): the components of a relative path
RECURSIVE split_path(_)
split_path(path) ==
    LET ab == OsPathSplit(path)
    IN  (IF Len(ab[1]) > 0 THEN split_path(ab[1]) ELSE <<>>) \o <<ab[2]>>

\* os.path.splitext(p)[0]: the extension starts at the last dot, leading dots
\* of the file name do not count
SplitextRoot(p) ==
    LET sepIndex == RFind(p, "/")
        dotIndex == RFind(p, ".")
    IN  IF /\ dotIndex > sepIndex
           /\ \E k \in (sepIndex + 1)..(dotIndex - 1) : p[k] # "."
        THEN SubSeq(p, 1, dotIndex - 1)
        ELSE p

\* _split_migration_path(migration_path).  kind is "tuple" (a pair is returned),
\* "None" (the loop ends without a return) or "IndexError" (decomposed_path[i+1]
\* does not exist)
SplitMigrationPath(migration_path) ==
    LET decomposed_path == split_path(migration_path)
        hits == {n \in 1..Len(decomposed_path) :
                    decomposed_path[n] = MIGRATION_FOLDER_NAME}
    IN  IF hits = {}
        THEN [kind |-> "None", app_name |-> <<>>, migration_name |-> <<>>]
        ELSE LET n    == CHOOSE m \in hits : \A j \in hits : m <= j
                 i    == n - 1
                 prev == PyIndex(decomposed_path, i - 1)
                 next == PyIndex(decomposed_path, i + 1)
             IN  IF prev = <<>> \/ next = <<>>
                 THEN [kind |-> "IndexError", app_name |-> <<>>,
                       migration_name |-> <<>>]
                 ELSE [kind |-> "tuple", app_name |-> prev[1],
                       migration_name |-> SplitextRoot(next[1])]

-----------------------------------------------------------------------------
(* Inputs of a run *)

\* None is <<>>, a str value s is <<s>>
None == <<>>

S_NONE == <<"N","o","n","e">>
S_C0   == <<"c","0">>
S_C1   == <<"c","1">>

\* GIT_COMMIT_ID as argparse delivers it: absent, or a commit
CommitArgs == {None, <<S_C0>>}

\* `not self.commit_id`: None and the empty str are false
Falsy(c) == c = None \/ c = << <<>> >>

\* '{1}'.format(self.commit_id)
Format(c) == IF c = None THEN S_NONE ELSE c[1]

\* what DJANGO_FOLDER is: manage.py and .git can only exist inside a directory
Folders ==
    {f \in [isdir : BOOLEAN, manage : BOOLEAN, git : BOOLEAN] :
        ~f.isdir => (~f.manage /\ ~f.git)}

P_GOOD   == <<"a","/","m","i","g","r","a","t","i","o","n","s","/","1",".","p","y">>
P_MODELS == <<"a","/","m","o","d","e","l","s",".","p","y">>
P_DOC    == <<"m","i","g","r","a","t","i","o","n","s",".","m","d">>
P_TOP    == <<"m","i","g","r","a","t","i","o","n","s","/","1",".","p","y">>
P_FILE   == <<"a","/","m","i","g","r","a","t","i","o","n","s">>

\* paths "git diff --name-only" may name
DiffPaths == {P_GOOD, P_MODELS, P_DOC, P_TOP, P_FILE}

L_NOT_NULL == <<"x"," ","N","O","T"," ","N","U","L","L">>
L_INDEX    == <<"C","R","E","A","T","E"," ","I","N","D","E","X">>
L_COMMENT  == <<"-","-","D","R","O","P"," ","C","O","L","U","M","N">>
L_INDENTED == <<" ","-","-","N","O","T"," ","N","U","L","L">>

\* lines "manage.py sqlmigrate" may write
SqlLines == {L_NOT_NULL, L_INDEX, L_COMMENT, L_INDENTED}

\* what a child writes to its standard output: at most max lines, each ended by a newline
Outputs(lines, max) ==
    {Concat([k \in 1..Len(ls) |-> ls[k] \o <<NL>>]) :
        ls \in UNION {[1..n -> lines] : n \in 0..max}}

\* "git rev-list HEAD | tail -n 1" writes the first commit, or nothing
RevOutputs == {<<>>, S_C1 \o <<NL>>}

-----------------------------------------------------------------------------
(* Child processes *)

\* Popen(cmd, shell=True, stdout=PIPE, stderr=PIPE): a child that will write
\* errLeft chunks to its standard error; returncode -1 is Python's None
NewProcess(cmd, args, e) ==
    [cmd |-> cmd, args |-> args, state |-> "running",
     errLeft |-> e, errPipe |-> 0, rc |-> -1]

Popen(cmd, args) ==
    /\ \E e \in 0..MaxStderr : procs' = Append(procs, NewProcess(cmd, args, e))
    /\ returncode' = -1

\* the process the script is working with: the one started last
Current == procs[Len(procs)]

\* stdout.readlines() returns at end of file, which is when the child has exited
StdoutAtEOF == procs # <<>> /\ Current.state = "exited"

\* variant of Reap: the child is never waited on
MutReap(p) == p

\* the kernel's side of wait(): the exited child is removed, its exit status
\* handed over and (with the Popen object) its pipes closed
Reap(p) == [p EXCEPT !.state = "reaped", !.errPipe = 0, !.rc = -1]

\* process.wait(), called at end of file of the child's output: sets returncode
Wait ==
    /\ procs' = [procs EXCEPT ![Len(procs)] = Reap(@)]
    /\ returncode' = Current.rc

Alive == {i \in 1..Len(procs) : procs[i].state # "reaped"}

\* the child writes a chunk to its standard error: the pipe must have room,
\* and nothing ever reads it
ChildWriteStderr ==
    /\ \E i \in 1..Len(procs) :
        /\ procs[i].state = "running"
        /\ procs[i].errLeft > 0
        /\ procs[i].errPipe < PipeCap
        /\ procs' = [procs EXCEPT ![i].errLeft = @ - 1, ![i].errPipe = @ + 1]
    /\ UNCHANGED <<returncode, pc, folder, args_commit_id, commit_id,
                   constructed, changed_migration_files, diff_lines,
                   sql_lines, sql_statements, idx, nb_valid, nb_erroneous,
                   printed, exc, arg, ret>>

\* the child has written everything and exits, with any status
ChildExit ==
    /\ \E i \in 1..Len(procs), rc \in {0, 1} :
        /\ procs[i].state = "running"
        /\ procs[i].errLeft = 0
        /\ procs' = [procs EXCEPT ![i].state = "exited", ![i].rc = rc]
    /\ UNCHANGED <<returncode, pc, folder, args_commit_id, commit_id,
                   constructed, changed_migration_files, diff_lines,
                   sql_lines, sql_statements, idx, nb_valid, nb_erroneous,
                   printed, exc, arg, ret>>

-----------------------------------------------------------------------------
(* The script *)

MSG_NOT_FOLDER == "The passed argument doesn't seem to be a folder."
MSG_NO_MANAGE  == "The passed folder doesn't seem to be a django project (no manage.py found)."
MSG_NO_GIT     == "The passed folder doesn't seem to versioned by git (no .git/ folder found)."

\* variant of valid_folder: .git is looked for before manage.py
MutValidFolder(f) ==
    IF ~f.isdir THEN [ok |-> FALSE, msg |-> MSG_NOT_FOLDER]
    ELSE IF ~f.git THEN [ok |-> FALSE, msg |-> MSG_NO_GIT]
    ELSE IF ~f.manage THEN [ok |-> FALSE, msg |-> MSG_NO_MANAGE]
    ELSE [ok |-> TRUE, msg |-> ""]

\* valid_folder(folder): the returned value and the message printed, "" for none
valid_folder(f) ==
    IF ~f.isdir THEN [ok |-> FALSE, msg |-> MSG_NOT_FOLDER]
    ELSE IF ~f.manage THEN [ok |-> FALSE, msg |-> MSG_NO_MANAGE]
    ELSE IF ~f.git THEN [ok |-> FALSE, msg |-> MSG_NO_GIT]
    ELSE [ok |-> TRUE, msg |-> ""]

\* __main__: the folder is validated; an invalid one ends the run
Main ==
    /\ pc = "main"
    /\ LET v == valid_folder(folder)
       IN  IF v.ok
           THEN pc' = "init" /\ printed' = printed
           ELSE pc' = "exit" /\ printed' = Append(printed, <<"folder", v.msg>>)
    /\ UNCHANGED <<returncode, folder, args_commit_id, commit_id, constructed,
                   changed_migration_files, procs, diff_lines, sql_lines,
                   sql_statements, idx, nb_valid, nb_erroneous, exc, arg,
                   ret>>

\* MigrationChecker.__init__ up to the call of _gather_migrations, and the
\* test `if not self.commit_id` that opens it
Construct ==
    /\ pc = "init"
    /\ constructed' = TRUE
    /\ commit_id' = args_commit_id
    /\ changed_migration_files' = <<>>
    /\ pc' = IF Falsy(args_commit_id) THEN "rev_popen" ELSE "diff_popen"
    /\ UNCHANGED <<returncode, folder, args_commit_id, procs, diff_lines,
                   sql_lines, sql_statements, idx, nb_valid, nb_erroneous,
                   printed, exc, arg, ret>>

PopenRevList ==
    /\ pc = "rev_popen"
    /\ Popen("rev-list", <<>>)
    /\ pc' = "rev_read"
    /\ UNCHANGED <<folder, args_commit_id, commit_id, constructed,
                   changed_migration_files, diff_lines, sql_lines,
                   sql_statements, idx, nb_valid, nb_erroneous, printed, exc,
                   arg, ret>>

\* the first line of the output, stripped, becomes the commit
ReadRevList ==
    /\ pc = "rev_read"
    /\ StdoutAtEOF
    /\ \E out \in RevOutputs :
        LET lines == ReadLines(out)
        IN  commit_id' = IF lines # <<>> THEN <<Strip(lines[1])>> ELSE commit_id
    /\ pc' = "rev_wait"
    /\ UNCHANGED <<returncode, folder, args_commit_id, constructed,
                   changed_migration_files, procs, diff_lines, sql_lines,
                   sql_statements, idx, nb_valid, nb_erroneous, printed, exc,
                   arg, ret>>

WaitRevList ==
    /\ pc = "rev_wait"
    /\ Wait
    /\ pc' = "diff_popen"
    /\ UNCHANGED <<folder, args_commit_id, commit_id, constructed,
                   changed_migration_files, diff_lines, sql_lines,
                   sql_statements, idx, nb_valid, nb_erroneous, printed, exc,
                   arg, ret>>

PopenDiff ==
    /\ pc = "diff_popen"
    /\ Popen("diff", <<Format(commit_id)>>)
    /\ pc' = "diff_read"
    /\ UNCHANGED <<folder, args_commit_id, commit_id, constructed,
                   changed_migration_files, diff_lines, sql_lines,
                   sql_statements, idx, nb_valid, nb_erroneous, printed, exc,
                   arg, ret>>

\* `if self.MIGRATION_FOLDER_NAME in line`
IsGathered(line) == Contains(MIGRATION_FOLDER_NAME, line)

\* the lines of the diff that are gathered, stripped, in order
RECURSIVE Gather(_)
Gather(lines) ==
    IF lines = <<>> THEN <<>>
    ELSE (IF IsGathered(Head(lines)) THEN <<Strip(Head(lines))>> ELSE <<>>)
         \o Gather(Tail(lines))

ReadDiff ==
    /\ pc = "diff_read"
    /\ StdoutAtEOF
    /\ \E out \in Outputs(DiffPaths, MaxDiffLines) :
        /\ diff_lines' = ReadLines(out)
        /\ changed_migration_files' = changed_migration_files \o Gather(ReadLines(out))
    /\ pc' = "diff_wait"
    /\ UNCHANGED <<returncode, folder, args_commit_id, commit_id, constructed,
                   procs, sql_lines, sql_statements, idx, nb_valid,
                   nb_erroneous, printed, exc, arg, ret>>

EXC_DIFF == "Exception: Error while executing git diff command"

\* variant of DiffFailed: only a death by signal counts as a failure
MutDiffFailed(rc) == rc < 0

\* `if diff_process.returncode != 0`
DiffFailed(rc) == rc # 0

\* diff_process.wait(), then the test of the return code; __init__ returns to
\* __main__ unless the exception is raised
WaitDiff ==
    /\ pc = "diff_wait"
    /\ Wait
    /\ IF DiffFailed(Current.rc)
       THEN pc' = "raised" /\ exc' = EXC_DIFF
       ELSE pc' = "check" /\ exc' = exc
    /\ UNCHANGED <<folder, args_commit_id, commit_id, constructed,
                   changed_migration_files, diff_lines, sql_lines,
                   sql_statements, idx, nb_valid, nb_erroneous, printed, arg,
                   ret>>

\* __init__ has returned (the Popen objects of _gather_migrations are gone) and
\* check_migrations is entered: the counters start at 0
CheckMigrations ==
    /\ pc = "check"
    /\ returncode' = -1
    /\ nb_valid' = 0
    /\ nb_erroneous' = 0
    /\ idx' = 1
    /\ pc' = "loop"
    /\ UNCHANGED <<folder, args_commit_id, commit_id, constructed,
                   changed_migration_files, procs, diff_lines, sql_lines,
                   sql_statements, printed, exc, arg, ret>>

\* the values the previous iteration left in sql_statements (and the output they
\* came from) are dead once the loop moves on, ends or is left by an exception
EndIteration == sql_lines' = <<>> /\ sql_statements' = <<>>

\* the Popen object of the previous iteration is gone too
Forget == returncode' = -1

\* `app_name, migration_name = self._split_migration_path(migration)` raises:
\* None cannot be unpacked, or the path has nothing after 'migrations'
SplitRaises ==
    /\ pc = "loop"
    /\ idx <= Len(changed_migration_files)
    /\ LET r == SplitMigrationPath(changed_migration_files[idx])
       IN  /\ r.kind # "tuple"
           /\ exc' = IF r.kind = "None" THEN "TypeError" ELSE "IndexError"
    /\ pc' = "raised"
    /\ EndIteration
    /\ Forget
    /\ UNCHANGED <<folder, args_commit_id, commit_id, constructed,
                   changed_migration_files, procs, diff_lines, idx, nb_valid,
                   nb_erroneous, printed, arg, ret>>

\* the path is split and django_sqlmigrate starts the renderer
PopenSqlmigrate ==
    /\ pc = "loop"
    /\ idx <= Len(changed_migration_files)
    /\ LET r == SplitMigrationPath(changed_migration_files[idx])
       IN  /\ r.kind = "tuple"
           /\ Popen("sqlmigrate", <<r.app_name, r.migration_name>>)
    /\ pc' = "sql_read"
    /\ EndIteration
    /\ UNCHANGED <<folder, args_commit_id, commit_id, constructed,
                   changed_migration_files, diff_lines, idx, nb_valid,
                   nb_erroneous, printed, exc, arg, ret>>

\* the lines kept by django_sqlmigrate: those that do not start with '--', stripped
RECURSIVE Statements(_)
Statements(lines) ==
    IF lines = <<>> THEN <<>>
    ELSE (IF ~StartsWith(Head(lines), <<"-","-">>)
          THEN <<Strip(Head(lines))>> ELSE <<>>)
         \o Statements(Tail(lines))

ReadSql ==
    /\ pc = "sql_read"
    /\ StdoutAtEOF
    /\ \E out \in Outputs(SqlLines, MaxSqlLines) :
        /\ sql_lines' = ReadLines(out)
        /\ sql_statements' = Statements(ReadLines(out))
    /\ pc' = "sql_wait"
    /\ UNCHANGED <<returncode, folder, args_commit_id, commit_id, constructed,
                   changed_migration_files, procs, diff_lines, idx, nb_valid,
                   nb_erroneous, printed, exc, arg, ret>>

EXC_SQL == "Exception: Error while executing sqlmigrate command"

\* variant of WaitSql: a failed rendering is fatal, as a failed diff is
MutWaitSql ==
    /\ pc = "sql_wait"
    /\ Wait
    /\ IF Current.rc # 0
       THEN pc' = "raised" /\ exc' = EXC_SQL
       ELSE pc' = "test" /\ exc' = exc
    /\ UNCHANGED <<folder, args_commit_id, commit_id, constructed,
                   changed_migration_files, diff_lines, sql_lines,
                   sql_statements, idx, nb_valid, nb_erroneous, printed, arg,
                   ret>>

\* diff_process.wait() of django_sqlmigrate, which then returns sql_statements
WaitSql ==
    /\ pc = "sql_wait"
    /\ Wait
    /\ pc' = "test"
    /\ exc' = exc
    /\ UNCHANGED <<folder, args_commit_id, commit_id, constructed,
                   changed_migration_files, diff_lines, sql_lines,
                   sql_statements, idx, nb_valid, nb_erroneous, printed, arg,
                   ret>>

\* variant of Errors: only the first statement is tested
MutErrors(statements) ==
    IF statements # <<>> /\ ~TestSqlStatement(statements[1]).is_valid
    THEN {TestSqlStatement(statements[1]).err_msg}
    ELSE {}

\* the set `errors` after the inner loop of check_migrations
Errors(statements) ==
    {TestSqlStatement(statements[k]).err_msg :
        k \in {j \in 1..Len(statements) : ~TestSqlStatement(statements[j]).is_valid}}

\* the rest of one iteration of check_migrations: the statements are tested,
\* the verdict is printed and counted
TestStatements ==
    /\ pc = "test"
    /\ LET migration == changed_migration_files[idx]
           errors    == Errors(sql_statements)
       IN  IF errors = {}
           THEN /\ printed' = Append(printed, <<"migration", migration, "OK", errors>>)
                /\ nb_valid' = nb_valid + 1
                /\ nb_erroneous' = nb_erroneous
           ELSE /\ printed' = Append(printed, <<"migration", migration, "ERR", errors>>)
                /\ nb_valid' = nb_valid
                /\ nb_erroneous' = nb_erroneous + 1
    /\ idx' = idx + 1
    /\ pc' = "loop"
    /\ UNCHANGED <<returncode, folder, args_commit_id, commit_id, constructed,
                   changed_migration_files, procs, diff_lines, sql_lines,
                   sql_statements, exc, arg, ret>>

\* the loop is over: the summary is printed and the script ends
Summary ==
    /\ pc = "loop"
    /\ idx > Len(changed_migration_files)
    /\ printed' = Append(printed, <<"summary", nb_valid,
                                    Len(changed_migration_files), nb_erroneous>>)
    /\ pc' = "done"
    /\ EndIteration
    /\ Forget
    /\ UNCHANGED <<folder, args_commit_id, commit_id, constructed,
                   changed_migration_files, procs, diff_lines, idx, nb_valid,
                   nb_erroneous, exc, arg, ret>>

Init ==
    /\ pc = "main"
    /\ folder \in Folders
    /\ args_commit_id \in CommitArgs
    /\ commit_id = None
    /\ constructed = FALSE
    /\ changed_migration_files = <<>>
    /\ procs = <<>>
    /\ diff_lines = <<>>
    /\ sql_lines = <<>>
    /\ sql_statements = <<>>
    /\ idx = 0
    /\ nb_valid = 0
    /\ nb_erroneous = 0
    /\ printed = <<>>
    /\ returncode = -1
    /\ exc = ""
    /\ arg = <<>>
    /\ ret = <<>>

Next ==
    \/ Main
    \/ Construct
    \/ PopenRevList
    \/ ReadRevList
    \/ WaitRevList
    \/ PopenDiff
    \/ ReadDiff
    \/ WaitDiff
    \/ CheckMigrations
    \/ SplitRaises
    \/ PopenSqlmigrate
    \/ ReadSql
    \/ WaitSql
    \/ TestStatements
    \/ Summary
    \/ ChildWriteStderr
    \/ ChildExit

Spec == Init /\ [][Next]_vars

\* the run is over: normal end, early end on an invalid folder, or an exception
Terminated == pc \in {"done", "exit", "raised"}

-----------------------------------------------------------------------------
(* The rule check on its own: one call of                                  *)
(* _test_sql_statement_for_backward_incompatibility on a statement built   *)
(* from fragments                                                          *)

S_CREATE_INDEX == <<"C","R","E","A","T","E"," ","I","N","D","E","X">>
S_EXAMPLE ==
    <<"A","D","D"," ","C","O","L","U","M","N"," ","x"," ","I","N","T"," ",
      "D","E","F","A","U","L","T"," ","0">>

SqlFrags ==
    {S_NOT_NULL, S_DROP_COLUMN, S_ADD_COLUMN, S_ADD_COLUMN_SP, S_DEFAULT,
     S_SP_DEFAULT, S_CREATE_INDEX, S_EXAMPLE, <<"x">>, <<" ">>, <<NL>>}

SqlInputs ==
    {Concat(fs) : fs \in UNION {[1..n -> SqlFrags] : n \in 0..MaxFrags}}

SqlInit ==
    /\ pc = "function"
    /\ arg \in SqlInputs
    /\ ret = <<>>
    /\ folder = [isdir |-> TRUE, manage |-> TRUE, git |-> TRUE]
    /\ args_commit_id = None
    /\ commit_id = None
    /\ constructed = FALSE
    /\ changed_migration_files = <<>>
    /\ procs = <<>>
    /\ diff_lines = <<>>
    /\ sql_lines = <<>>
    /\ sql_statements = <<>>
    /\ idx = 0
    /\ nb_valid = 0
    /\ nb_erroneous = 0
    /\ printed = <<>>
    /\ returncode = -1
    /\ exc = ""

\* the call
CallTest ==
    /\ pc = "function"
    /\ ret = <<>>
    /\ ret' = <<TestSqlStatement(arg)>>
    /\ UNCHANGED <<arg, pipeVars>>

SqlNext == CallTest

SpecSql == SqlInit /\ [][SqlNext]_vars

-----------------------------------------------------------------------------
(* Properties *)

SingleLine(s) == \A k \in 1..Len(s) : s[k] # NL

\* s holds 'ADD COLUMN ' and, after it, ' DEFAULT'
AddColumnThenDefault(s) ==
    \E i \in 1..Len(s), j \in 1..Len(s) :
        /\ OccursAt(S_ADD_COLUMN_SP, s, i)
        /\ OccursAt(S_SP_DEFAULT, s, j)
        /\ j >= i + Len(S_ADD_COLUMN_SP)

\* C1: for a single-line statement the rule check returns (False, one of the
\* three messages) exactly when the statement contains 'NOT NULL', or
\* 'DROP COLUMN', or 'ADD COLUMN ' followed later by ' DEFAULT'; otherwise it
\* returns (True, None).  'ADD COLUMN x INT DEFAULT 0' is flagged and
\* 'CREATE INDEX' is not.
C1_RuleCheck ==
    (ret # <<>> /\ SingleLine(arg)) =>
        LET r      == ret[1]
            unsafe == \/ Contains(S_NOT_NULL, arg)
                      \/ Contains(S_DROP_COLUMN, arg)
                      \/ AddColumnThenDefault(arg)
        IN  /\ unsafe => (~r.is_valid /\ r.err_msg \in {ErrMsg(k) : k \in 1..NbTests})
            /\ ~unsafe => r = [is_valid |-> TRUE, err_msg |-> "None"]
            /\ arg = S_EXAMPLE => ~r.is_valid
            /\ arg = S_NOT_NULL => ~r.is_valid
            /\ arg = S_CREATE_INDEX => r.is_valid

C1_Witness ==
    /\ ret # <<>>
    /\ arg = S_ADD_COLUMN_SP \o <<"x">> \o S_SP_DEFAULT
    /\ ret[1] = [is_valid |-> FALSE, err_msg |-> "ADD columns with default"]

ProcsOf(cmd) == {i \in 1..Len(procs) : procs[i].cmd = cmd}

IsResult(p) == p[1] = "migration"

\* the per-migration verdicts printed so far
Results == SelectSeq(printed, IsResult)

\* C2: once the git diff process has been waited on with a nonzero return
\* code, the run has ended with the fatal exception: one diff was run, no
\* sqlmigrate was started, and nothing was printed.
C2_DiffFailureIsFatal ==
    (/\ procs # <<>>
     /\ Current.cmd = "diff"
     /\ Current.state = "reaped"
     /\ returncode \notin {-1, 0}) =>
        /\ pc = "raised"
        /\ exc = EXC_DIFF
        /\ Cardinality(ProcsOf("diff")) = 1
        /\ ProcsOf("sqlmigrate") = {}
        /\ printed = <<>>

\* the diff failed in a run where no commit was given and rev-list wrote nothing
C2_Witness ==
    /\ pc = "raised"
    /\ exc = EXC_DIFF
    /\ returncode # 0
    /\ args_commit_id = None
    /\ commit_id = None
    /\ Len(procs) = 2
    /\ procs[1].cmd = "rev-list"
    /\ procs[2].cmd = "diff"
    /\ procs[2].args = <<S_NONE>>
    /\ procs[2].state = "reaped"

FolderValid == folder.isdir /\ folder.manage /\ folder.git

\* C3: an invalid folder prints exactly the message of the first failing check
\* (directory, manage.py, .git) and ends the run: no checker, no process, no
\* summary.  A valid folder prints no such message and the checker is run.
C3_InvalidFolder ==
    pc # "main" =>
        IF ~FolderValid
        THEN /\ pc = "exit"
             /\ printed = << <<"folder",
                              IF ~folder.isdir THEN MSG_NOT_FOLDER
                              ELSE IF ~folder.manage THEN MSG_NO_MANAGE
                              ELSE MSG_NO_GIT>> >>
             /\ ~constructed
             /\ procs = <<>>
        ELSE /\ pc # "exit"
             /\ \A k \in 1..Len(printed) : printed[k][1] # "folder"
             /\ pc # "init" => constructed

\* a directory with neither manage.py nor .git: the manage.py message is printed
C3_Witness ==
    /\ pc = "exit"
    /\ folder = [isdir |-> TRUE, manage |-> FALSE, git |-> FALSE]
    /\ printed = << <<"folder", MSG_NO_MANAGE>> >>

\* number of processes before the first sqlmigrate
NbGit == (IF Falsy(args_commit_id) THEN 1 ELSE 0) + 1

\* C4: at most one child is alive at any time; the children are started in the
\* order rev-list (only without a commit id), diff, then one sqlmigrate per
\* gathered migration in list order; when the next child is started, and when
\* the statements of a migration are tested, every child has been waited on.
C4_Sequential ==
    /\ Cardinality(Alive) <= 1
    /\ Alive # {} => Alive = {Len(procs)}
    /\ \A i \in 1..Len(procs) :
        /\ i < NbGit => procs[i].cmd = "rev-list"
        /\ i = NbGit => procs[i].cmd = "diff"
        /\ i > NbGit =>
            /\ procs[i].cmd = "sqlmigrate"
            /\ i - NbGit <= Len(changed_migration_files)
            /\ LET r == SplitMigrationPath(changed_migration_files[i - NbGit])
               IN  procs[i].args = <<r.app_name, r.migration_name>>
    /\ Len(procs) > NbGit => Len(procs) - NbGit \in {idx, idx - 1}
    /\ pc \in {"rev_popen", "diff_popen", "check", "loop", "test", "done"}
        => Alive = {}

\* a run without commit id in which a second migration is about to be tested
C4_Witness ==
    /\ pc = "test"
    /\ idx = 2
    /\ Len(procs) = 4
    /\ procs[1].cmd = "rev-list"
    /\ changed_migration_files = <<P_GOOD, P_TOP>>

\* C5: the run never blocks: in every state it has ended or can take a step,
\* even when a child writes more to its standard error than the pipe buffers.
C5_NeverBlocks == Terminated \/ ENABLED Next

Flagged(statements) ==
    \E k \in 1..Len(statements) : ~TestSqlStatement(statements[k]).is_valid

CountOf(verdict) ==
    Cardinality({k \in 1..Len(Results) : Results[k][3] = verdict})

\* C6: every migration processed so far has been counted once, as 'ERR' when
\* one of its statements is flagged and as 'OK' otherwise; nb_valid +
\* nb_erroneous is the number processed, and in the summary it is the length
\* of changed_migration_files.
C6_Counted ==
    /\ idx >= 1 =>
        /\ nb_valid + nb_erroneous = idx - 1
        /\ Len(Results) = idx - 1
        /\ \A k \in 1..Len(Results) :
            /\ Results[k][2] = changed_migration_files[k]
            /\ Results[k][3] \in {"OK", "ERR"}
        /\ nb_valid = CountOf("OK")
        /\ nb_erroneous = CountOf("ERR")
    /\ (pc = "loop" /\ idx > 1) =>
        Results[idx - 1][3] = IF Flagged(sql_statements) THEN "ERR" ELSE "OK"
    /\ pc = "done" =>
        /\ nb_valid + nb_erroneous = Len(changed_migration_files)
        /\ printed[Len(printed)] =
             <<"summary", nb_valid, Len(changed_migration_files), nb_erroneous>>

\* two migrations processed, the first found valid and the second erroneous
C6_Witness ==
    /\ pc = "done"
    /\ Len(changed_migration_files) = 2
    /\ nb_valid = 1
    /\ nb_erroneous = 1
    /\ Results[1][3] = "OK"
    /\ Results[2][3] = "ERR"

S_MIGRATIONS_SLASH == MIGRATION_FOLDER_NAME \o <<"/">>

\* path has a component 'migrations' followed by a file name
InMigrationsFolder(path) ==
    \E i \in 1..Len(path) :
        /\ OccursAt(S_MIGRATIONS_SLASH, path, i)
        /\ i = 1 \/ path[i - 1] = "/"
        /\ i + Len(S_MIGRATIONS_SLASH) <= Len(path)
        /\ path[i + Len(S_MIGRATIONS_SLASH)] # "/"

GatherDone ==
    pc \in {"diff_wait", "check", "loop", "sql_read", "sql_wait", "test", "done",
            "raised"}

\* C7: the gathered list is, in order, the lines of the diff that lie inside a
\* directory named exactly 'migrations'.
C7_GatheredAreMigrations ==
    GatherDone =>
        changed_migration_files =
            SelectSeq([k \in 1..Len(diff_lines) |-> Strip(diff_lines[k])],
                      InMigrationsFolder)

\* C8: every gathered path splits into (component before the first
\* 'migrations', component after it without its extension), and the loop of
\* check_migrations never raises on unpacking it.
C8_SplitIsTotal ==
    /\ exc \notin {"TypeError", "IndexError"}
    /\ \A k \in 1..Len(changed_migration_files) :
        LET path  == changed_migration_files[k]
            comps == split_path(path)
            r     == SplitMigrationPath(path)
        IN  /\ r.kind = "tuple"
            /\ \E n \in 2..(Len(comps) - 1) :
                /\ comps[n] = MIGRATION_FOLDER_NAME
                /\ \A m \in 1..(n - 1) : comps[m] # MIGRATION_FOLDER_NAME
                /\ r.app_name = comps[n - 1]
                /\ r.migration_name = SplitextRoot(comps[n + 1])

\* a line of SQL output that is a comment, indented or not
IsComment(line) == StartsWith(Strip(line), <<"-","-">>)

\* C9: no returned statement begins with '--', indented comments included;
\* the returned list is the non-comment lines, stripped, in output order.
C9_CommentsIgnored ==
    /\ \A k \in 1..Len(sql_statements) :
        ~StartsWith(sql_statements[k], <<"-","-">>)
    /\ pc \in {"sql_wait", "test"} =>
        LET NotComment(line) == ~IsComment(line)
            kept == SelectSeq(sql_lines, NotComment)
        IN  sql_statements = [k \in 1..Len(kept) |-> Strip(kept[k])]

NbRendered ==
    Cardinality({i \in ProcsOf("sqlmigrate") : procs[i].state = "reaped"})

\* C10: whatever the exit status of the renderer, the migration is classified
\* (nothing is raised on a failed rendering), and a rendering that wrote
\* nothing is reported 'OK' and counted valid, also when it failed.
C10_ExitStatusIgnored ==
    /\ Len(Results) = IF pc = "test" THEN NbRendered - 1 ELSE NbRendered
    /\ pc = "raised" => exc \in {EXC_DIFF, "TypeError", "IndexError"}
    /\ (pc = "loop" /\ idx > 1 /\ sql_lines = <<>>) =>
        /\ Results[idx - 1][3] = "OK"
        /\ nb_valid >= 1

\* a rendering that failed and wrote nothing has been reported 'OK'
C10_Witness ==
    /\ pc = "loop"
    /\ idx = 2
    /\ Current.cmd = "sqlmigrate"
    /\ returncode = 1
    /\ sql_lines = <<>>
    /\ Results[1][3] = "OK"
    /\ nb_valid = 1

====
